---------------------------- MODULE Spec2Model ----------------------------
(***************************************************************************)
(* A model of server/health_data_parser.py: HealthDataParser's two         *)
(* aggregation calls, parse_activity_data (a streaming scan of the export  *)
(* with ET.iterparse) and get_sleep_data (a tree parse with ET.parse and   *)
(* two passes over the sleep-analysis records).                            *)
(*                                                                         *)
(* Representation.                                                         *)
(*  - Text that the code inspects character by character (value, unit,     *)
(*    sourceName, the sleep stage) is a sequence of one-character strings. *)
(*  - An element is [tag, attrib]; attrib is a record holding exactly the  *)
(*    attributes present, so elem.get(k, d) is Get(attrib, k, d).          *)
(*  - A calendar date is its day number; the canonical YYYY-MM-DD strings  *)
(*    order as the day numbers do.  A timestamp text is one of             *)
(*      [k |-> "full", day, min]  "YYYY-MM-DD HH:MM:SS +0000"              *)
(*      [k |-> "date", day]       "YYYY-MM-DD" (no time part)              *)
(*      [k |-> "junk"]            "not-a-date"                             *)
(*      [k |-> "empty"]           ""                                       *)
(*  - A float is a fixed-point number counted in halves (FloatScale = 2).  *)
(*    Distances are kept in units of 10^-7 km per half, energies in units  *)
(*    of 10^-9 kcal per half, so that every conversion factor of the code  *)
(*    is an integer and sums are exact.                                    *)
(***************************************************************************)
EXTENDS Integers, Sequences, FiniteSets, TLC

VARIABLES
    call,           \* "activity" (parse_activity_data) or "sleep" (get_sleep_data)
    file,           \* the export file: "missing", "empty" (size 0) or "present"
    days,           \* the days argument
    lines,          \* sleep: the number of text lines of the file, once read (else 0)
    pc,             \* position in the call
    export,         \* the elements of the export read so far, in file order
    malformed,      \* the parser has met markup that is not well formed
    held,           \* indices of export whose parsed content is in memory
    daily_data,     \* activity: date -> ActivityRecord
    source_counts,  \* activity: <<date, source>> -> step tally
    source,         \* activity: the local variable source (bound or not)
    sleep_records,  \* sleep: the sleep-analysis elements found in the tree
    sleep_data,     \* sleep: date -> bucket
    idx,            \* sleep: records of sleep_records processed in the second pass
    outcome,        \* "running", "ok" (a list was returned) or the exception raised
    result          \* the list returned

vars == <<call, file, days, lines, pc, export, malformed, held, daily_data, source_counts,
          source, sleep_records, sleep_data, idx, outcome, result>>

(***************************************************************************)
(* Bounds of the model.                                                    *)
(***************************************************************************)
\* The number of elements an export holds.
MaxRecords == 3
\* The day number of datetime.now().
Today == 40

(***************************************************************************)
(* Text.                                                                   *)
(***************************************************************************)
Upper == <<"A","B","C","D","E","F","G","H","I","J","K","L","M",
           "N","O","P","Q","R","S","T","U","V","W","X","Y","Z">>
LowerCase == <<"a","b","c","d","e","f","g","h","i","j","k","l","m",
               "n","o","p","q","r","s","t","u","v","w","x","y","z">>

LowerChar(c) ==
    IF \E i \in 1..26 : Upper[i] = c
    THEN LowerCase[CHOOSE i \in 1..26 : Upper[i] = c]
    ELSE c

\* str.lower()
Lower(s) == [i \in 1..Len(s) |-> LowerChar(s[i])]

\* sub in s
Contains(sub, s) ==
    \E i \in 0..(Len(s) - Len(sub)) :
        \A j \in 1..Len(sub) : s[i + j] = sub[j]

\* elem.get(k, d)
Get(attrib, k, d) == IF k \in DOMAIN attrib THEN attrib[k] ELSE d

\* elem.get(k) is None or ''
Falsy(attrib, k) == k \notin DOMAIN attrib \/ attrib[k] = <<>>

(***************************************************************************)
(* float(value_str): an optional sign, digits, an optional point and       *)
(* digits; anything else raises ValueError.  The result is counted in      *)
(* halves: the fraction is cut to its first binary digit.                  *)
(***************************************************************************)
FloatScale == 2

Digits == <<"0","1","2","3","4","5","6","7","8","9">>

IsDigit(c) == \E i \in 1..10 : Digits[i] = c

DigitVal(c) == (CHOOSE i \in 1..10 : Digits[i] = c) - 1

RECURSIVE IntOf(_)
IntOf(ds) ==
    IF ds = <<>> THEN 0
    ELSE 10 * IntOf(SubSeq(ds, 1, Len(ds) - 1)) + DigitVal(ds[Len(ds)])

AllDigits(ds) == \A i \in 1..Len(ds) : IsDigit(ds[i])

Unsigned(s) ==
    LET dots == {i \in 1..Len(s) : s[i] = "."}
        p    == IF dots = {} THEN Len(s) + 1
                ELSE CHOOSE i \in dots : \A j \in dots : i <= j
        ip   == SubSeq(s, 1, p - 1)
        fp   == SubSeq(s, p + 1, Len(s))
    IN  IF AllDigits(ip) /\ AllDigits(fp) /\ Len(ip) + Len(fp) > 0
        THEN [ok |-> TRUE,
              v  |-> FloatScale * IntOf(ip)
                     + (IF fp # <<>> /\ DigitVal(fp[1]) >= 5 THEN 1 ELSE 0)]
        ELSE [ok |-> FALSE, v |-> 0]

ParseFloat(s) ==
    IF s # <<>> /\ s[1] \in {"-", "+"}
    THEN LET u == Unsigned(Tail(s))
         IN  [ok |-> u.ok, v |-> IF s[1] = "-" THEN 0 - u.v ELSE u.v]
    ELSE Unsigned(s)

\* int(value): truncation toward zero
IntTrunc(v) ==
    IF v >= 0 THEN v \div FloatScale ELSE 0 - ((0 - v) \div FloatScale)

(***************************************************************************)
(* Timestamp text.                                                         *)
(***************************************************************************)
\* start_date_str.split(' ')[0] names a calendar day
HasDay(ts) == ts.k \in {"full", "date"}

\* datetime.strptime(s, "%Y-%m-%d %H:%M:%S %z") succeeds
Strptime(ts) == ts.k = "full"

\* the instant, in minutes
Instant(ts) == ts.day * 1440 + ts.min


(***************************************************************************)
(* parse_activity_data.                                                    *)
(***************************************************************************)
STEP_COUNT == "HKQuantityTypeIdentifierStepCount"
DISTANCE == "HKQuantityTypeIdentifierDistanceWalkingRunning"
ACTIVE_ENERGY == "HKQuantityTypeIdentifierActiveEnergyBurned"

\* Limit to max 30 days
MaxDays == 30

\* Kilometres per half unit of value, in 10^-7 km: value * 1.60934,
\* value * 0.0003048, value / 1000.
MileFactor == 8046700
FootFactor == 1524
MeterFactor == 5000
\* Kilocalories per half unit of value, in 10^-9 kcal: value * 0.239006,
\* value * 0.000239006, value.
KilojouleFactor == 119503000
JouleFactor == 119503
KcalFactor == 500000000
\* Hundredths (round(x, 2)) in the units above.
DistancePerCent == 100000
EnergyPerCent == 10000000

WATCH == <<"w","a","t","c","h">>
UNKNOWN == <<"u","n","k","n","o","w","n">>

\* ActivityRecord(date=...)
ActivityRecord(d) ==
    [date |-> d, steps |-> 0, distance |-> 0, active_energy_burned |-> 0]

\* No upper limit on days.
ClampDaysMissing(n) == n

\* days = min(days, 30)
ClampDays(n) == IF n < MaxDays THEN n ELSE MaxDays

\* The keys of daily_data: start_date + i for i in range(days), where
\* start_date = end_date - (days - 1).
WindowDates(n) == {(Today - (n - 1)) + i : i \in 0..(n - 1)}

\* 'watch' in source
IsWatch(src) == Contains(WATCH, src)

\* A conversion to km that tests the meter marker first.
DistanceKmMetersFirst(value, unit) ==
    IF Contains(<<"m">>, unit) THEN value * MeterFactor
    ELSE IF Contains(<<"m","i">>, unit) THEN value * MileFactor
    ELSE IF Contains(<<"f","t">>, unit) THEN value * FootFactor
    ELSE value * MeterFactor

\* The distance branch's conversion to km.
DistanceKm(value, unit) ==
    IF Contains(<<"m","i">>, unit) THEN value * MileFactor
    ELSE IF Contains(<<"f","t">>, unit) THEN value * FootFactor
    ELSE IF Contains(<<"m">>, unit) THEN value * MeterFactor
    ELSE value * MeterFactor

\* The energy branch's conversion to kcal.
EnergyKcal(value, unit) ==
    IF Contains(<<"k","j">>, unit) THEN value * KilojouleFactor
    ELSE IF Contains(<<"j">>, unit) THEN value * JouleFactor
    ELSE value * KcalFactor

\* elem.get('startDate') is None or ''
NoTimestamp(attrib, k) == k \notin DOMAIN attrib \/ attrib[k].k = "empty"

\* The checks of lines 344-373: the record reaches the unit handling.
Relevant(st, elem) ==
    /\ elem.tag = "Record"
    /\ Get(elem.attrib, "type", "") \in {STEP_COUNT, DISTANCE, ACTIVE_ENERGY}
    /\ ~NoTimestamp(elem.attrib, "startDate")
    /\ HasDay(elem.attrib.startDate)
    /\ elem.attrib.startDate.day \in DOMAIN st.daily_data
    /\ ~Falsy(elem.attrib, "value")
    /\ ParseFloat(elem.attrib.value).ok

\* The source the distance and energy branches test: the local variable
\* source, which only the step-count branch assigns.
BranchSource(st, elem) == st.source

\* A step-count branch that leaves the source test out.
StepBranchAnySource(st, elem) ==
    LET d    == elem.attrib.startDate.day
        step == IntTrunc(ParseFloat(elem.attrib.value).v)
        src  == Lower(Get(elem.attrib, "sourceName", UNKNOWN))
    IN  [st EXCEPT
            !.source = [bound |-> TRUE, val |-> src],
            !.daily_data[d].steps = @ + step]

\* The step-count branch, lines 376-396.
StepBranch(st, elem) ==
    LET d    == elem.attrib.startDate.day
        step == IntTrunc(ParseFloat(elem.attrib.value).v)
        src  == Lower(Get(elem.attrib, "sourceName", UNKNOWN))
        key  == <<d, src>>
        sc   == st.source_counts
    IN  [st EXCEPT
            !.source = [bound |-> TRUE, val |-> src],
            !.source_counts =
                [k \in DOMAIN sc \cup {key} |->
                    (IF k \in DOMAIN sc THEN sc[k] ELSE 0)
                    + (IF k = key THEN step ELSE 0)],
            !.daily_data[d].steps = IF IsWatch(src) THEN @ + step ELSE @]

\* The distance and energy branches, lines 398-430.
QuantityBranch(st, elem) ==
    LET d     == elem.attrib.startDate.day
        value == ParseFloat(elem.attrib.value).v
        unit  == Lower(Get(elem.attrib, "unit", <<>>))
        src   == BranchSource(st, elem)
    IN  IF ~src.bound THEN [st EXCEPT !.raised = "UnboundLocalError"]
        ELSE IF ~IsWatch(Lower(src.val)) THEN st
        ELSE IF elem.attrib.type = DISTANCE
        THEN [st EXCEPT !.daily_data[d].distance = @ + DistanceKm(value, unit)]
        ELSE [st EXCEPT !.daily_data[d].active_energy_burned =
                            @ + EnergyKcal(value, unit)]

\* One iteration of the loop over the iterparse events, lines 334-439.
ActivityIteration(st, elem) ==
    IF ~Relevant(st, elem) THEN st
    ELSE IF elem.attrib.type = STEP_COUNT THEN StepBranch(st, elem)
    ELSE QuantityBranch(st, elem)

\* round(x, 2), in hundredths
Round2(x, q) ==
    LET f == x \div q
        r == x % q
    IN  IF 2 * r < q THEN f
        ELSE IF 2 * r > q THEN f + 1
        ELSE IF f % 2 = 0 THEN f ELSE f + 1

\* ActivityRecord.to_dict
ToDict(r) ==
    [date |-> r.date, steps |-> r.steps,
     distance |-> Round2(r.distance, DistancePerCent),
     activeEnergyBurned |-> Round2(r.active_energy_burned, EnergyPerCent)]

\* sorted(S)
RECURSIVE SortedSeq(_)
SortedSeq(S) ==
    IF S = {} THEN <<>>
    ELSE LET m == CHOOSE x \in S : \A y \in S : x <= y
         IN  <<m>> \o SortedSeq(S \ {m})

\* result = [record.to_dict() ...]; result.sort(key=date)
ActivityResult(dd) ==
    LET ks == SortedSeq(DOMAIN dd)
    IN  [i \in 1..Len(ks) |-> ToDict(dd[ks[i]])]

\* The state of the scan when the loop starts, lines 306-315.
ActivityStart(n) ==
    [daily_data |-> [d \in WindowDates(n) |-> ActivityRecord(d)],
     source_counts |-> << >>,
     source |-> [bound |-> FALSE],
     raised |-> "none"]

\* The whole scan of a sequence of elements, stopping where one raises.
RECURSIVE ActivityScan(_, _)
ActivityScan(st, elems) ==
    IF elems = <<>> \/ st.raised # "none" THEN st
    ELSE ActivityScan(ActivityIteration(st, Head(elems)), Tail(elems))

\* What parse_activity_data does with a well-formed file holding elems.
ParseActivityData(elems, n) ==
    LET st == ActivityScan(ActivityStart(ClampDays(n)), elems)
    IN  IF st.raised # "none"
        THEN [outcome |-> st.raised, result |-> <<>>]
        ELSE [outcome |-> "ok", result |-> ActivityResult(st.daily_data)]

(***************************************************************************)
(* The elements an export is made of in the activity scans.                *)
(***************************************************************************)
Ts(d, m) == [k |-> "full", day |-> d, min |-> m]

Quantity(type, d, value, unit, src) ==
    [tag |-> "Record",
     attrib |-> [type |-> type, startDate |-> Ts(d, 480), endDate |-> Ts(d, 490),
                 value |-> value, unit |-> unit, sourceName |-> src]]

AppleWatch == <<"A","p","p","l","e"," ","W","a","t","c","h">>
Phone == <<"P","h","o","n","e">>

StepPhone500 == Quantity(STEP_COUNT, Today, <<"5","0","0">>, <<"c","o","u","n","t">>, Phone)
StepWatch1000 == Quantity(STEP_COUNT, Today, <<"1","0","0","0">>, <<"c","o","u","n","t">>, AppleWatch)
StepWatch200 == Quantity(STEP_COUNT, Today, <<"2","0","0">>, <<"c","o","u","n","t">>, AppleWatch)
StepUpperWatch == Quantity(STEP_COUNT, Today - 1, <<"1","2",".","5">>, <<"c","o","u","n","t">>, <<"W","A","T","C","H">>)
StepNegative == Quantity(STEP_COUNT, Today, <<"-","1",".","5">>, <<"c","o","u","n","t">>, AppleWatch)
DistWatchMeters == Quantity(DISTANCE, Today, <<"1","0","0","0">>, <<"m">>, AppleWatch)
DistPhoneMiles == Quantity(DISTANCE, Today, <<"1",".","5">>, <<"m","i">>, Phone)
DistWatchMiles == Quantity(DISTANCE, Today, <<"2">>, <<"m","i">>, AppleWatch)
DistNoSource ==
    [tag |-> "Record",
     attrib |-> [type |-> DISTANCE, startDate |-> Ts(Today - 1, 480),
                 value |-> <<"1","0","0">>, unit |-> <<"f","t">>]]
DistNotNumeric == Quantity(DISTANCE, Today, <<"a","b","c">>, <<"k","m">>, AppleWatch)
EnergyWatchKcal == Quantity(ACTIVE_ENERGY, Today, <<"0",".","5">>, <<"k","c","a","l">>, AppleWatch)
EnergyPhoneKj == Quantity(ACTIVE_ENERGY, Today, <<"1">>, <<"k","J">>, Phone)
EnergyOldJoule == Quantity(ACTIVE_ENERGY, Today - 2, <<"3">>, <<"J">>, AppleWatch)
DistWatchNoUnit ==
    [tag |-> "Record",
     attrib |-> [type |-> DISTANCE, startDate |-> Ts(Today, 480),
                 value |-> <<"5","0","0">>, sourceName |-> AppleWatch]]
EnergyWatchNoUnit ==
    [tag |-> "Record",
     attrib |-> [type |-> ACTIVE_ENERGY, startDate |-> Ts(Today - 1, 480),
                 value |-> <<"0",".","5">>, sourceName |-> AppleWatch]]
OtherElement == [tag |-> "Workout", attrib |-> [workoutActivityType |-> "Run"]]

ActivityPool ==
    {StepPhone500, StepWatch1000, StepWatch200, StepUpperWatch, StepNegative,
     DistWatchMeters, DistPhoneMiles, DistWatchMiles, DistNoSource, DistNotNumeric,
     EnergyWatchKcal, EnergyPhoneKj, EnergyOldJoule, DistWatchNoUnit,
     EnergyWatchNoUnit, OtherElement}

\* The values of the days argument tried.
DaysChoices == {-1, 0, 2, MaxDays + 1}


(***************************************************************************)
(* get_sleep_data.                                                         *)
(***************************************************************************)
SLEEP_ANALYSIS == "HKCategoryTypeIdentifierSleepAnalysis"

\* first_lines = [next(f) for _ in range(5)]
FirstLines == 5
\* len(strftime("%Y-%m-%d")): the date string of a bucket is never empty.
DateStrLen == 10
\* The debug records kept per bucket.
MaxDebugRecords == 3

\* root.findall(".//Record[@type='HKCategoryTypeIdentifierSleepAnalysis']")
IsSleepRecord(elem) ==
    elem.tag = "Record" /\ Get(elem.attrib, "type", "") = SLEEP_ANALYSIS

FindSleepRecords(tree) == SelectSeq(tree, IsSleepRecord)

\* A fresh bucket, lines 180-188 and 219-227.
SleepBucket(d) ==
    [date |-> d, inBed |-> 0, asleep |-> 0, deep |-> 0, rem |-> 0,
     light |-> 0, awake |-> 0, debug_records |-> 0]

\* The first pass, lines 154-160: the first token of every non-empty startDate.
AllDates(recs) ==
    {recs[i].attrib.startDate : i \in
        {j \in 1..Len(recs) : ~NoTimestamp(recs[j].attrib, "startDate")}}

\* datetime.strptime(sorted_dates[0], "%Y-%m-%d") and of sorted_dates[-1]
\* succeed.  A token that is no date ("not-a-date") sorts after every date,
\* so it is sorted_dates[-1] whenever it is there.
RangeParses(dates) == \A ts \in dates : HasDay(ts)

\* for i in range(delta_days + 1): start_date + i, lines 168-188
SpanDates(dates) ==
    LET ds    == {ts.day : ts \in dates}
        first == CHOOSE d \in ds : \A e \in ds : d <= e
        last  == CHOOSE d \in ds : \A e \in ds : e <= d
        delta_days == (last - first) + 1
    IN  {first + i : i \in 0..delta_days}

\* A stage update that tests the generic 'Asleep' before the stages.
ClassifyGenericFirst(b, value, duration) ==
    IF Contains(<<"I","n","B","e","d">>, value)
    THEN [b EXCEPT !.inBed = @ + duration]
    ELSE IF Contains(<<"A","s","l","e","e","p">>, value)
    THEN [b EXCEPT !.asleep = @ + duration, !.light = @ + duration]
    ELSE IF Contains(<<"D","e","e","p">>, value)
    THEN [b EXCEPT !.asleep = @ + duration, !.deep = @ + duration]
    ELSE IF Contains(<<"R","E","M">>, value)
    THEN [b EXCEPT !.asleep = @ + duration, !.rem = @ + duration]
    ELSE IF Contains(<<"A","w","a","k","e">>, value)
    THEN [b EXCEPT !.awake = @ + duration]
    ELSE b

\* The sleep stage update, lines 244-259.
Classify(b, value, duration) ==
    IF Contains(<<"I","n","B","e","d">>, value)
    THEN [b EXCEPT !.inBed = @ + duration]
    ELSE IF Contains(<<"A","s","l","e","e","p","C","o","r","e">>, value) \/ Contains(<<"C","o","r","e">>, value)
    THEN [b EXCEPT !.asleep = @ + duration, !.light = @ + duration]
    ELSE IF Contains(<<"A","s","l","e","e","p","D","e","e","p">>, value) \/ Contains(<<"D","e","e","p">>, value)
    THEN [b EXCEPT !.asleep = @ + duration, !.deep = @ + duration]
    ELSE IF Contains(<<"A","s","l","e","e","p","R","E","M">>, value) \/ Contains(<<"R","E","M">>, value)
    THEN [b EXCEPT !.asleep = @ + duration, !.rem = @ + duration]
    ELSE IF Contains(<<"A","s","l","e","e","p">>, value)
    THEN [b EXCEPT !.asleep = @ + duration, !.light = @ + duration]
    ELSE IF Contains(<<"A","w","a","k","e">>, value)
    THEN [b EXCEPT !.awake = @ + duration]
    ELSE b

\* The record passes the checks of lines 195-211.
Measurable(rec) ==
    /\ ~NoTimestamp(rec.attrib, "startDate")
    /\ ~NoTimestamp(rec.attrib, "endDate")
    /\ Strptime(rec.attrib.startDate)
    /\ Strptime(rec.attrib.endDate)
    /\ Instant(rec.attrib.endDate) - Instant(rec.attrib.startDate) > 0

\* One iteration of the second pass, lines 191-265.
SleepIteration(sd, rec) ==
    IF ~Measurable(rec) THEN sd
    ELSE
        LET duration == Instant(rec.attrib.endDate) - Instant(rec.attrib.startDate)
            d     == rec.attrib.startDate.day
            with  == [k \in DOMAIN sd \cup {d} |->
                        IF k \in DOMAIN sd THEN sd[k] ELSE SleepBucket(k)]
            noted == [with[d] EXCEPT !.debug_records =
                        IF @ < MaxDebugRecords THEN @ + 1 ELSE @]
        IN  [with EXCEPT ![d] =
                Classify(noted, Get(rec.attrib, "value", <<>>), duration)]

\* any(data.values()), once debug_records is deleted: the values are the
\* date string and the six totals.
AnyValues(data) ==
    \/ DateStrLen > 0
    \/ data.inBed # 0 \/ data.asleep # 0 \/ data.deep # 0
    \/ data.rem # 0 \/ data.light # 0 \/ data.awake # 0

\* The dict appended to result, lines 271-279.
SleepDay(data) ==
    [date |-> data.date, inBed |-> data.inBed, asleep |-> data.asleep,
     deep |-> data.deep, rem |-> data.rem, light |-> data.light,
     awake |-> data.awake]

\* No truncation.
SliceNothing(seq, n) == seq

\* seq[:n]
Slice(seq, n) ==
    IF n >= 0 THEN SubSeq(seq, 1, IF n < Len(seq) THEN n ELSE Len(seq))
    ELSE SubSeq(seq, 1, Len(seq) + n)

\* Lines 267-286: the kept buckets, sorted by date descending, cut to days.
SleepResult(sd, n) ==
    LET kept == {d \in DOMAIN sd : AnyValues(sd[d])}
        asc  == SortedSeq(kept)
        desc == [i \in 1..Len(asc) |-> SleepDay(sd[asc[Len(asc) + 1 - i]])]
    IN  Slice(desc, n)

\* Lines 146-188: the state the second pass starts from, or the early return.
SleepStart(tree) ==
    LET recs  == FindSleepRecords(tree)
        dates == AllDates(recs)
    IN  IF recs = <<>> \/ dates = {} \/ ~RangeParses(dates)
        THEN [returns |-> TRUE, records |-> recs, sleep_data |-> << >>]
        ELSE [returns |-> FALSE, records |-> recs,
              sleep_data |-> [d \in SpanDates(dates) |-> SleepBucket(d)]]

\* The second pass over a sequence of records.
RECURSIVE SleepScan(_, _)
SleepScan(sd, recs) ==
    IF recs = <<>> THEN sd
    ELSE SleepScan(SleepIteration(sd, Head(recs)), Tail(recs))

\* What get_sleep_data returns for a well-formed file of at least five lines
\* holding the elements of tree.
GetSleepData(tree, n) ==
    LET s == SleepStart(tree)
    IN  IF s.returns THEN <<>>
        ELSE SleepResult(SleepScan(s.sleep_data, s.records), n)

(***************************************************************************)
(* The elements an export is made of in the sleep scans.                   *)
(***************************************************************************)
Sleep(value, start, stop) ==
    [tag |-> "Record",
     attrib |-> [type |-> SLEEP_ANALYSIS, value |-> value,
                 startDate |-> start, endDate |-> stop,
                 sourceName |-> AppleWatch]]

InBed60 == Sleep(<<"I","n","B","e","d">>, Ts(Today - 3, 1320), Ts(Today - 3, 1380))
Deep30 == Sleep(<<"A","s","l","e","e","p","D","e","e","p">>, Ts(Today - 3, 1380), Ts(Today - 3, 1410))
Deep45 == Sleep(<<"A","s","l","e","e","p","D","e","e","p">>, Ts(Today - 3, 1410), Ts(Today - 2, 15))
Core20 == Sleep(<<"A","s","l","e","e","p","C","o","r","e">>, Ts(Today - 1, 60), Ts(Today - 1, 80))
Awake15 == Sleep(<<"A","w","a","k","e">>, Ts(Today - 1, 80), Ts(Today - 1, 95))
NoStage10 == Sleep(<<"U","n","s","p","e","c","i","f","i","e","d">>, Ts(Today - 1, 95), Ts(Today - 1, 105))
ZeroLength == Sleep(<<"A","w","a","k","e">>, Ts(Today - 5, 60), Ts(Today - 5, 60))
Inverted == Sleep(<<"A","s","l","e","e","p","R","E","M">>, Ts(Today, 120), Ts(Today, 60))
NoEndDate ==
    [tag |-> "Record",
     attrib |-> [type |-> SLEEP_ANALYSIS, value |-> <<"A","s","l","e","e","p">>,
                 startDate |-> Ts(Today - 6, 60)]]
JunkStart == Sleep(<<"A","s","l","e","e","p">>, [k |-> "junk"], Ts(Today - 1, 60))
DateOnlyStart == Sleep(<<"A","s","l","e","e","p">>, [k |-> "date", day |-> Today - 4], Ts(Today - 4, 60))
Rem25 == Sleep(<<"A","s","l","e","e","p","R","E","M">>, Ts(Today - 2, 30), Ts(Today - 2, 55))
Asleep40 == Sleep(<<"A","s","l","e","e","p">>, Ts(Today - 1, 0), Ts(Today - 1, 40))

SleepPool ==
    {InBed60, Deep30, Deep45, Core20, Awake15, NoStage10, ZeroLength, Inverted,
     NoEndDate, JunkStart, DateOnlyStart, Rem25, Asleep40, StepWatch1000}

\* The line counts of the export file tried.
LineCounts == {FirstLines - 1, FirstLines}

\* The element sequences a file of fewer than five lines may hold: a line
\* can carry any number of elements.
ShortFiles == UNION {[1..n -> SleepPool] : n \in 0..MaxRecords}

(***************************************************************************)
(* The state machine.                                                      *)
(***************************************************************************)
Init ==
    /\ call \in {"activity", "sleep"}
    /\ file \in {"missing", "empty", "present"}
    /\ days \in DaysChoices
    /\ lines = 0
    /\ pc = "start"
    /\ export = <<>>
    /\ malformed = FALSE
    /\ held = {}
    /\ daily_data = << >>
    /\ source_counts = << >>
    /\ source = [bound |-> FALSE]
    /\ sleep_records = <<>>
    /\ sleep_data = << >>
    /\ idx = 0
    /\ outcome = "running"
    /\ result = <<>>

sleepVars == <<lines, sleep_records, sleep_data, idx>>
activityVars == <<daily_data, source_counts, source>>

\* raise: the call ends with exception e and returns nothing.
Raise(e) == pc' = "done" /\ outcome' = e /\ result' = <<>>

\* return r
Return(r) == pc' = "done" /\ outcome' = "ok" /\ result' = r

\* A parse error handler that returns what was accumulated.
ParseErrorReturnsPartial(dd) == [outcome |-> "ok", result |-> ActivityResult(dd)]

\* except ET.ParseError: raise ValueError(...), lines 441-442: the buckets
\* filled so far are dropped.
ParseErrorOutcome(dd) == [outcome |-> "ValueError", result |-> <<>>]

\* elem.clear(): the content of element i is released.
Clear(h, i) == h \ {i}

\* Lines 294-331: the file check, the window and its buckets.
ActivityOpen ==
    /\ call = "activity" /\ pc = "start"
    /\ IF file = "missing"
       THEN /\ Raise("FileNotFoundError")
            /\ UNCHANGED activityVars
       ELSE /\ pc' = "scan"
            /\ daily_data' = ActivityStart(ClampDays(days)).daily_data
            /\ source_counts' = ActivityStart(ClampDays(days)).source_counts
            /\ source' = ActivityStart(ClampDays(days)).source
            /\ UNCHANGED <<outcome, result>>
    /\ UNCHANGED <<call, malformed, file, days, export, held, sleepVars>>

\* Lines 334-439: iterparse yields the next element, the loop body handles it
\* and clears it.
ActivityElement ==
    /\ call = "activity" /\ pc = "scan" /\ file = "present"
    /\ Len(export) < MaxRecords
    /\ \E elem \in ActivityPool :
        LET st == [daily_data |-> daily_data, source_counts |-> source_counts,
                   source |-> source, raised |-> "none"]
            nx == ActivityIteration(st, elem)
            i  == Len(export) + 1
        IN  /\ export' = Append(export, elem)
            /\ held' = Clear(held \cup {i}, i)
            /\ daily_data' = nx.daily_data
            /\ source_counts' = nx.source_counts
            /\ source' = nx.source
            /\ IF nx.raised # "none"
               THEN Raise(nx.raised)
               ELSE UNCHANGED <<pc, outcome, result>>
    /\ UNCHANGED <<call, malformed, file, days, sleepVars>>

\* Lines 441-442: the parser meets markup that is not well formed (an empty
\* file has no element at all).
ActivityParseError ==
    /\ call = "activity" /\ pc = "scan"
    /\ malformed' = TRUE
    /\ pc' = "done"
    /\ outcome' = ParseErrorOutcome(daily_data).outcome
    /\ result' = ParseErrorOutcome(daily_data).result
    /\ UNCHANGED <<call, file, days, export, held, activityVars, sleepVars>>

\* Lines 447-477: the end of a well-formed file.
ActivityFinish ==
    /\ call = "activity" /\ pc = "scan" /\ file = "present"
    /\ Return(ActivityResult(daily_data))
    /\ UNCHANGED <<call, malformed, file, days, export, held, activityVars, sleepVars>>

\* Lines 69-80: a missing or empty file gives the default return.
SleepOpen ==
    /\ call = "sleep" /\ pc = "start"
    /\ IF file \in {"missing", "empty"}
       THEN Return(<<>>)
       ELSE pc' = "lines" /\ UNCHANGED <<outcome, result>>
    /\ UNCHANGED <<call, malformed, file, days, export, held, activityVars, sleepVars>>

\* Lines 86-90 and 134-140: the first five lines are read; next(f) on a
\* shorter file raises StopIteration, which the handler turns into the
\* default return.  By then next(f) has read every line of the file, so all
\* its elements, as text: they are never parsed.  A file of five lines or
\* more is read again from its start by ET.parse.
SleepFirstLines ==
    /\ call = "sleep" /\ pc = "lines"
    /\ \E n \in LineCounts :
        /\ lines' = n
        /\ IF n < FirstLines
           THEN /\ Return(<<>>)
                /\ export' \in ShortFiles
           ELSE /\ pc' = "parse"
                /\ UNCHANGED <<outcome, result, export>>
    /\ UNCHANGED <<call, malformed, file, days, held, activityVars,
                   sleep_records, sleep_data, idx>>

\* Line 93: ET.parse reads one more element into the tree.
SleepParseElement ==
    /\ call = "sleep" /\ pc = "parse"
    /\ Len(export) < MaxRecords
    /\ \E elem \in SleepPool :
        /\ export' = Append(export, elem)
        /\ held' = held \cup {Len(export) + 1}
    /\ UNCHANGED <<call, malformed, file, days, pc, outcome, result, activityVars, sleepVars>>

\* Lines 93 and 134-140: ET.parse meets markup that is not well formed.
SleepParseError ==
    /\ call = "sleep" /\ pc = "parse"
    /\ malformed' = TRUE
    /\ Return(<<>>)
    /\ UNCHANGED <<call, file, days, export, held, activityVars, sleepVars>>

\* Lines 94-188 (and 288-290): the tree is complete; the sleep records are
\* found, their dates collected and the buckets of the span created.
SleepParsed ==
    /\ call = "sleep" /\ pc = "parse"
    /\ LET s == SleepStart(export)
       IN  /\ sleep_records' = s.records
           /\ sleep_data' = s.sleep_data
           /\ IF s.returns
              THEN Return(<<>>)
              ELSE pc' = "records" /\ UNCHANGED <<outcome, result>>
    /\ UNCHANGED <<call, malformed, file, days, lines, idx, export, held, activityVars>>

\* Lines 191-265: the second pass handles the next sleep record.
SleepRecord ==
    /\ call = "sleep" /\ pc = "records"
    /\ idx < Len(sleep_records)
    /\ sleep_data' = SleepIteration(sleep_data, sleep_records[idx + 1])
    /\ idx' = idx + 1
    /\ UNCHANGED <<call, malformed, file, days, lines, pc, export, held, outcome, result,
                   sleep_records, activityVars>>

\* Lines 267-286: the result is built and returned.
SleepFinish ==
    /\ call = "sleep" /\ pc = "records"
    /\ idx = Len(sleep_records)
    /\ Return(SleepResult(sleep_data, days))
    /\ UNCHANGED <<call, malformed, file, days, export, held, activityVars, sleepVars>>

\* parse_activity_data
NextActivity ==
    \/ ActivityOpen
    \/ ActivityElement
    \/ ActivityParseError
    \/ ActivityFinish

\* get_sleep_data
NextSleep ==
    \/ SleepOpen
    \/ SleepFirstLines
    \/ SleepParseElement
    \/ SleepParseError
    \/ SleepParsed
    \/ SleepRecord
    \/ SleepFinish

Next == NextActivity \/ NextSleep

\* Either call.
Spec == Init /\ [][Next]_vars

\* The calls of parse_activity_data.
InitActivity == Init /\ call = "activity"

SpecActivity == InitActivity /\ [][NextActivity]_vars

\* The calls of get_sleep_data.
InitSleep == Init /\ call = "sleep"

SpecSleep == InitSleep /\ [][NextSleep]_vars


(***************************************************************************)
(* Vocabulary of the properties.                                           *)
(***************************************************************************)
\* seq with its i-th element removed
Without(seq, i) == SubSeq(seq, 1, i - 1) \o SubSeq(seq, i + 1, Len(seq))

\* elem is a record of the given type, dated d, with a numeric value.
Eligible(elem, type, d) ==
    /\ elem.tag = "Record"
    /\ "type" \in DOMAIN elem.attrib /\ elem.attrib.type = type
    /\ "startDate" \in DOMAIN elem.attrib
    /\ elem.attrib.startDate.k \in {"full", "date"}
    /\ elem.attrib.startDate.day = d
    /\ "value" \in DOMAIN elem.attrib
    /\ ParseFloat(elem.attrib.value).ok

\* The record's own sourceName contains 'watch', whatever the case.
OwnWatch(elem) ==
    /\ "sourceName" \in DOMAIN elem.attrib
    /\ Contains(<<"w","a","t","c","h">>, Lower(elem.attrib.sourceName))

\* The converted value of a distance or energy record.
Converted(elem) ==
    LET value == ParseFloat(elem.attrib.value).v
        unit  == Lower(Get(elem.attrib, "unit", <<>>))
    IN  IF elem.attrib.type = DISTANCE THEN DistanceKm(value, unit)
        ELSE EnergyKcal(value, unit)

\* The sum of the converted values of the records of a type dated d whose
\* own source is a watch.
RECURSIVE OwnSourceTotal(_, _, _)
OwnSourceTotal(elems, type, d) ==
    IF elems = <<>> THEN 0
    ELSE (IF Eligible(Head(elems), type, d) /\ OwnWatch(Head(elems))
          THEN Converted(Head(elems)) ELSE 0)
         + OwnSourceTotal(Tail(elems), type, d)

\* The sum of the truncated values of the step records dated d whose own
\* source is a watch.
RECURSIVE WatchStepSum(_, _)
WatchStepSum(elems, d) ==
    IF elems = <<>> THEN 0
    ELSE (IF Eligible(Head(elems), STEP_COUNT, d) /\ OwnWatch(Head(elems))
          THEN LET v == ParseFloat(Head(elems).attrib.value).v
               IN  IF v >= 0 THEN v \div 2 ELSE 0 - ((0 - v) \div 2)
          ELSE 0)
         + WatchStepSum(Tail(elems), d)

\* parse_activity_data is past its file check.
ActivityScanning == call = "activity" /\ pc \in {"scan", "done"} /\ file # "missing"

\* parse_activity_data has returned a list.
ActivityReturned == call = "activity" /\ pc = "done" /\ outcome = "ok"

\* get_sleep_data has gone through a well-formed file of five lines or more.
SleepReturned ==
    /\ call = "sleep" /\ pc = "done" /\ file = "present"
    /\ lines >= FirstLines /\ ~malformed

(***************************************************************************)
(* C1.  A distance or active-energy record dated in the window with a      *)
(* numeric value is converted and added in full to its day's total exactly *)
(* when its own sourceName contains 'watch', and is ignored otherwise,     *)
(* whatever was scanned before it: each day's distance and energy total is *)
(* the sum of the converted values of the day's records that come from a   *)
(* watch (stated of the scans in which no record has raised).              *)
(***************************************************************************)
C1_OwnSourceDecides ==
    (ActivityScanning /\ outcome \in {"running", "ok"}) =>
        \A d \in DOMAIN daily_data :
            /\ daily_data[d].distance = OwnSourceTotal(export, DISTANCE, d)
            /\ daily_data[d].active_energy_burned
                   = OwnSourceTotal(export, ACTIVE_ENERGY, d)

(***************************************************************************)
(* C2.  For a well-formed export parse_activity_data returns a result for  *)
(* every sequence of Record elements: no record makes the call fail.       *)
(***************************************************************************)
C2_NoRecordFailsTheCall ==
    (call = "activity" /\ file = "present" /\ ~malformed) =>
        outcome \in {"running", "ok"}

(***************************************************************************)
(* C3.  Every day record get_sleep_data returns has at least one of its    *)
(* six fields non-zero.                                                    *)
(***************************************************************************)
C3_NoAllZeroDay ==
    (call = "sleep" /\ pc = "done") =>
        \A i \in 1..Len(result) :
            \/ result[i].inBed # 0 \/ result[i].asleep # 0
            \/ result[i].deep # 0 \/ result[i].rem # 0
            \/ result[i].light # 0 \/ result[i].awake # 0

\* A sleep record whose startDate or endDate is missing or does not parse.
Unparsable(elem) ==
    /\ elem.tag = "Record"
    /\ "type" \in DOMAIN elem.attrib /\ elem.attrib.type = SLEEP_ANALYSIS
    /\ \/ "startDate" \notin DOMAIN elem.attrib
       \/ "endDate" \notin DOMAIN elem.attrib
       \/ elem.attrib.startDate.k # "full"
       \/ elem.attrib.endDate.k # "full"

(***************************************************************************)
(* C4.  A sleep-analysis record whose startDate or endDate is missing or   *)
(* cannot be parsed is skipped with no effect on the other records: the    *)
(* list returned equals the list returned for the export without it.       *)
(***************************************************************************)
C4_UnparsableRecordHasNoEffect ==
    SleepReturned =>
        \A i \in 1..Len(export) :
            Unparsable(export[i]) =>
                result = GetSleepData(Without(export, i), days)

\* An activity record whose sourceName lacks the watch marker.
NonWatchActivity(elem) ==
    /\ elem.tag = "Record"
    /\ "type" \in DOMAIN elem.attrib
    /\ elem.attrib.type \in {STEP_COUNT, DISTANCE, ACTIVE_ENERGY}
    /\ ~OwnWatch(elem)

(***************************************************************************)
(* C5.  Removing from the export an activity record whose sourceName lacks *)
(* the 'watch' marker, at any position, leaves the list returned by        *)
(* parse_activity_data unchanged.                                          *)
(***************************************************************************)
C5_NonWatchRecordsChangeNothing ==
    ActivityReturned =>
        \A i \in 1..Len(export) :
            NonWatchActivity(export[i]) =>
                ParseActivityData(Without(export, i), days)
                    = [outcome |-> "ok", result |-> result]

\* Not a sleep record with end <= start.
PositiveOrOther(elem) ==
    ~ /\ elem.tag = "Record"
      /\ "type" \in DOMAIN elem.attrib /\ elem.attrib.type = SLEEP_ANALYSIS
      /\ "startDate" \in DOMAIN elem.attrib /\ elem.attrib.startDate.k = "full"
      /\ "endDate" \in DOMAIN elem.attrib /\ elem.attrib.endDate.k = "full"
      /\ Instant(elem.attrib.endDate) <= Instant(elem.attrib.startDate)

(***************************************************************************)
(* C6.  A sleep record with end <= start contributes nothing: the list     *)
(* returned equals the list returned for the export with all such records  *)
(* removed.                                                                *)
(***************************************************************************)
C6_EmptyIntervalsContributeNothing ==
    SleepReturned =>
        result = GetSleepData(SelectSeq(export, PositiveOrOther), days)

\* The code accepts export[i]: it adds it to a total of its day.
Accepted(i) ==
    LET st0 == [ActivityStart(0) EXCEPT
                    !.daily_data = [d \in DOMAIN daily_data |-> ActivityRecord(d)]]
        st  == ActivityScan(st0, SubSeq(export, 1, i - 1))
    IN  /\ Relevant(st, export[i])
        /\ IF export[i].attrib.type = STEP_COUNT
           THEN OwnWatch(export[i])
           ELSE st.source.bound /\ Contains(<<"w","a","t","c","h">>, st.source.val)

(***************************************************************************)
(* C7.  As claimed: parse_activity_data works with d = days clamped to     *)
(* [1, 30] and returns exactly d entries, one per date, ascending and      *)
(* contiguous, ending today.                                               *)
(***************************************************************************)
C7_ClampedToOneThirty ==
    LET d == IF days > 30 THEN 30 ELSE IF days < 1 THEN 1 ELSE days
    IN  ActivityReturned =>
            /\ Len(result) = d
            /\ \A i \in 1..Len(result) : result[i].date = Today - d + i

(***************************************************************************)
(* C7, amended.  parse_activity_data works with d = min(days, 30), which   *)
(* has no lower limit: it builds one bucket per date of the d days ending  *)
(* today (none when days <= 0), and a list it returns has exactly          *)
(* max(d, 0) entries, in contiguous ascending date order ending today; a   *)
(* date with no accepted record has steps, distance and activeEnergyBurned *)
(* all zero.                                                               *)
(***************************************************************************)
C7_WindowOfMinDaysThirty ==
    LET d == IF days > 30 THEN 30 ELSE IF days < 0 THEN 0 ELSE days
    IN  /\ ActivityScanning => DOMAIN daily_data = (Today - d + 1)..Today
        /\ ActivityReturned =>
            /\ Len(result) = d
            /\ \A i \in 1..Len(result) : result[i].date = Today - d + i
            /\ LET touched == {export[j].attrib.startDate.day :
                                j \in {k \in 1..Len(export) : Accepted(k)}}
               IN  \A i \in 1..Len(result) :
                    result[i].date \notin touched
                        => /\ result[i].steps = 0
                           /\ result[i].distance = 0
                           /\ result[i].activeEnergyBurned = 0

C7_Witness ==
    /\ ActivityReturned
    /\ days > 30 /\ Len(result) = 30
    /\ \E i \in 1..Len(result) : result[i].steps > 0
    /\ \E i \in 1..Len(result) : result[i].steps = 0

(***************************************************************************)
(* C8.  As claimed: when the export is not well-formed markup, either      *)
(* aggregation call ends with an error outcome the caller can tell apart   *)
(* from a successful result, and returns no day records.                   *)
(***************************************************************************)
C8_MalformedIsAnError ==
    (malformed /\ pc = "done") => (outcome # "ok" /\ result = <<>>)

(***************************************************************************)
(* C8, amended.  When the export is not well-formed markup,                *)
(* parse_activity_data ends with an error (ValueError) and get_sleep_data  *)
(* returns the empty list, as it does for an export without sleep records; *)
(* neither returns day records built from the part of the file scanned     *)
(* before the failure.                                                     *)
(***************************************************************************)
C8_MalformedGivesNoDayRecords ==
    (malformed /\ pc = "done") =>
        /\ result = <<>>
        /\ call = "activity" => outcome = "ValueError"
        /\ call = "sleep" => outcome = "ok"

C8_Witness ==
    /\ malformed /\ pc = "done" /\ call = "activity"
    /\ \E d \in DOMAIN daily_data :
        daily_data[d].steps > 0 /\ daily_data[d].distance > 0
    /\ result = <<>>

(***************************************************************************)
(* C9.  Neither aggregation call keeps the parsed document in memory: at   *)
(* every point the records already consumed have been released and at most *)
(* the record being processed is held.                                     *)
(***************************************************************************)
C9_AtMostOneRecordHeld == Cardinality(held) <= 1

(***************************************************************************)
(* C10.  For every date in the window, steps is the sum, over the          *)
(* step-count records of that date whose value is numeric and whose own    *)
(* sourceName contains 'watch' (case-insensitive), of the value truncated  *)
(* to an integer; step records of other sources add nothing.               *)
(***************************************************************************)
C10_StepsAreWatchSteps ==
    /\ ActivityScanning =>
        \A d \in DOMAIN daily_data :
            daily_data[d].steps = WatchStepSum(export, d)
    /\ ActivityReturned =>
        \A i \in 1..Len(result) :
            result[i].steps = WatchStepSum(export, result[i].date)

C10_Witness ==
    /\ ActivityReturned
    /\ export = <<StepPhone500, StepWatch1000, StepWatch200>>
    /\ \E i \in 1..Len(result) : result[i].date = Today /\ result[i].steps = 1200

\* The six minute totals of a sleep day.
SleepFields == {"inBed", "asleep", "deep", "rem", "light", "awake"}

\* The fields a stage value stands for: the first substring found, in the
\* order InBed, Core, Deep, REM, Asleep, Awake, decides.
StageFields(value) ==
    CASE Contains(<<"I","n","B","e","d">>, value) -> {"inBed"}
      [] Contains(<<"C","o","r","e">>, value) -> {"asleep", "light"}
      [] Contains(<<"D","e","e","p">>, value) -> {"asleep", "deep"}
      [] Contains(<<"R","E","M">>, value) -> {"asleep", "rem"}
      [] Contains(<<"A","s","l","e","e","p">>, value) -> {"asleep", "light"}
      [] Contains(<<"A","w","a","k","e">>, value) -> {"awake"}
      [] OTHER -> {}

\* A record whose two timestamps parse and whose end is after its start.
PositiveDuration(rec) ==
    /\ "startDate" \in DOMAIN rec.attrib /\ rec.attrib.startDate.k = "full"
    /\ "endDate" \in DOMAIN rec.attrib /\ rec.attrib.endDate.k = "full"
    /\ Instant(rec.attrib.endDate) > Instant(rec.attrib.startDate)

\* What a sleep record adds: to which fields, on which day, how many minutes.
Contribution(rec) ==
    IF PositiveDuration(rec)
    THEN [day |-> rec.attrib.startDate.day,
          fields |-> IF "value" \in DOMAIN rec.attrib
                     THEN StageFields(rec.attrib.value) ELSE {},
          minutes |-> Instant(rec.attrib.endDate) - Instant(rec.attrib.startDate)]
    ELSE [day |-> 0, fields |-> {}, minutes |-> 0]

RECURSIVE Contributions(_)
Contributions(recs) ==
    IF recs = <<>> THEN <<>>
    ELSE <<Contribution(Head(recs))>> \o Contributions(Tail(recs))

\* The minutes the contributions cs add to a field of day d.
RECURSIVE StageTotal(_, _, _)
StageTotal(cs, field, d) ==
    IF cs = <<>> THEN 0
    ELSE (IF Head(cs).day = d /\ field \in Head(cs).fields
          THEN Head(cs).minutes ELSE 0)
         + StageTotal(Tail(cs), field, d)

(***************************************************************************)
(* C11.  In the second pass of get_sleep_data every sleep record of        *)
(* positive duration d adds exactly d to the fields of its one class       *)
(* (InBed: inBed; Core: asleep and light; Deep: asleep and deep; REM:      *)
(* asleep and rem; Asleep: asleep and light; Awake: awake; the first       *)
(* substring found in that order decides, a value with none adds nothing)  *)
(* on the day of its start date and to nothing else: after each record     *)
(* every field of every bucket is the sum of the durations of the records  *)
(* processed so far that start on that day and whose class has the field,  *)
(* and so is every field of every day record returned.                     *)
(***************************************************************************)
C11_StageTotals ==
    /\ (call = "sleep" /\ pc = "records") =>
        LET cs == Contributions(SubSeq(sleep_records, 1, idx))
        IN  /\ \A i \in 1..Len(cs) :
                    cs[i].minutes > 0 => cs[i].day \in DOMAIN sleep_data
            /\ \A d \in DOMAIN sleep_data : \A f \in SleepFields :
                    sleep_data[d][f] = StageTotal(cs, f, d)
    /\ (call = "sleep" /\ pc = "done") =>
        LET cs == Contributions(FindSleepRecords(export))
        IN  \A i \in 1..Len(result) : \A f \in SleepFields :
                result[i][f] = StageTotal(cs, f, result[i].date)

C11_Witness ==
    /\ call = "sleep" /\ pc = "done"
    /\ export = <<Deep30, Rem25, Deep45>>
    /\ \E i \in 1..Len(result) :
        /\ result[i].date = Today - 3
        /\ result[i].deep = 75 /\ result[i].asleep = 75
        /\ result[i].light = 0 /\ result[i].rem = 0

\* The factor the first matching rule gives, on the lower-cased unit text
\* ('' when the unit is absent).
ClaimedFactor(elem) ==
    LET unit == Lower(IF "unit" \in DOMAIN elem.attrib THEN elem.attrib.unit ELSE <<>>)
    IN  IF elem.attrib.type = DISTANCE
        THEN CASE Contains(<<"m","i">>, unit) -> MileFactor
               [] Contains(<<"f","t">>, unit) -> FootFactor
               [] OTHER -> MeterFactor
        ELSE CASE Contains(<<"k","j">>, unit) -> KilojouleFactor
               [] Contains(<<"j">>, unit) -> JouleFactor
               [] OTHER -> KcalFactor

\* What the element e the scan reads next adds to a total of day d: its
\* value times its own factor when it is an accepted record of the type
\* dated d, nothing otherwise.
Addition(e, type, d) ==
    IF /\ Relevant([daily_data |-> daily_data], e)
       /\ e.attrib.type = type
       /\ e.attrib.startDate.day = d
       /\ source.bound
       /\ Contains(<<"w","a","t","c","h">>, source.val)
    THEN ParseFloat(e.attrib.value).v * ClaimedFactor(e)
    ELSE 0

\* The step of the scan over one more element.
ConvertsOnItsOwn ==
    (call = "activity" /\ pc = "scan" /\ Len(export') = Len(export) + 1) =>
        LET e == export'[Len(export')]
        IN  \A d \in DOMAIN daily_data :
                /\ daily_data'[d].distance
                       = daily_data[d].distance + Addition(e, DISTANCE, d)
                /\ daily_data'[d].active_energy_burned
                       = daily_data[d].active_energy_burned
                         + Addition(e, ACTIVE_ENERGY, d)

\* The step that returns the list.
ReturnsTheSums ==
    (call = "activity" /\ pc = "scan" /\ pc' = "done" /\ outcome' = "ok") =>
        \A i \in 1..Len(result') :
            LET dd == daily_data[result'[i].date]
            IN  /\ result'[i].distance * DistancePerCent - dd.distance
                       \in (0 - DistancePerCent \div 2)..(DistancePerCent \div 2)
                /\ result'[i].activeEnergyBurned * EnergyPerCent
                     - dd.active_energy_burned
                       \in (0 - EnergyPerCent \div 2)..(EnergyPerCent \div 2)

(***************************************************************************)
(* C12.  An accepted distance record is added as value times 1.60934 when  *)
(* its lower-cased unit contains 'mi', else times 0.0003048 when it        *)
(* contains 'ft', else times 0.001 (meters, no unit, or any other unit);   *)
(* an accepted energy record as value times 0.239006 when the unit         *)
(* contains 'kj', else times 0.000239006 when it contains 'j', else times  *)
(* 1.  Each record is converted on its own before it is added: every step  *)
(* of the scan adds to the distance or energy total of the record's day    *)
(* the record's value times its own factor and changes no other such       *)
(* total, and the returned list carries the totals rounded to two          *)
(* decimals.                                                               *)
(***************************************************************************)
C12_FactorByFirstRule == [][ConvertsOnItsOwn /\ ReturnsTheSums]_vars

\* 1000 m and 2 mi of one day: 1 km + 3.21868 km, returned as 4.22.
C12_Witness ==
    /\ ActivityReturned
    /\ export = <<StepWatch200, DistWatchMeters, DistWatchMiles>>
    /\ Today \in DOMAIN daily_data
    /\ daily_data[Today].distance = 42186800
    /\ \E i \in 1..Len(result) : result[i].date = Today /\ result[i].distance = 422

\* The days get_sleep_data retains: the buckets that pass the test of line
\* 278.
RetainedDays == {d \in DOMAIN sleep_data : AnyValues(sleep_data[d])}

(***************************************************************************)
(* C13.  For every days >= 0 the list get_sleep_data returns is in         *)
(* strictly descending date order (so no date is repeated), has            *)
(* min(days, number of retained days) entries, hence at most days, and     *)
(* they are the latest of the retained days, each with the totals of its   *)
(* bucket; no date is left out for being old, days only cuts the list.     *)
(***************************************************************************)
C13_LatestDaysDescending ==
    (call = "sleep" /\ pc = "done" /\ days >= 0) =>
        LET n     == Cardinality(RetainedDays)
            dates == {result[i].date : i \in 1..Len(result)}
        IN  /\ Len(result) = IF days < n THEN days ELSE n
            /\ \A i \in 1..(Len(result) - 1) : result[i].date > result[i + 1].date
            /\ dates \subseteq RetainedDays
            /\ \A d \in RetainedDays \ dates : \A e \in dates : d < e
            /\ \A i \in 1..Len(result) : \A f \in SleepFields :
                    result[i][f] = sleep_data[result[i].date][f]

\* Two days asked for, more retained, and a day of three days ago returned.
C13_Witness ==
    /\ call = "sleep" /\ pc = "done" /\ days = 2
    /\ Cardinality(RetainedDays) > days
    /\ Len(result) = days
    /\ \E i \in 1..Len(result) :
            result[i].date < Today - days /\ result[i].deep > 0

\* No field of a bucket is smaller after a step than before it.
NeverDecreases ==
    /\ \A d \in DOMAIN daily_data \cap DOMAIN daily_data' :
        /\ daily_data'[d].steps >= daily_data[d].steps
        /\ daily_data'[d].distance >= daily_data[d].distance
        /\ daily_data'[d].active_energy_burned >= daily_data[d].active_energy_burned
    /\ \A d \in DOMAIN sleep_data \cap DOMAIN sleep_data' : \A f \in SleepFields :
        sleep_data'[d][f] >= sleep_data[d][f]

\* Every field of every bucket and of every returned day record is >= 0.
NeverNegative ==
    /\ \A d \in DOMAIN daily_data :
        /\ daily_data[d].steps >= 0
        /\ daily_data[d].distance >= 0
        /\ daily_data[d].active_energy_burned >= 0
    /\ \A d \in DOMAIN sleep_data : \A f \in SleepFields : sleep_data[d][f] >= 0
    /\ (call = "activity" /\ pc = "done") =>
        \A i \in 1..Len(result) :
            /\ result[i].steps >= 0
            /\ result[i].distance >= 0
            /\ result[i].activeEnergyBurned >= 0
    /\ (call = "sleep" /\ pc = "done") =>
        \A i \in 1..Len(result) : \A f \in SleepFields : result[i][f] >= 0

(***************************************************************************)
(* C14.  Within one scan no field of a day bucket (steps, distance, active *)
(* energy; the six minute totals) decreases from one processed record to   *)
(* the next, whatever the record values, and every field of every bucket   *)
(* and of every returned day record is non-negative.                       *)
(***************************************************************************)
C14_TotalsNeverDecrease == []NeverNegative /\ [][NeverDecreases]_vars

\* A sleep-analysis record of positive duration with a recognized stage.
CountedSleep(elem) ==
    /\ elem.tag = "Record"
    /\ "type" \in DOMAIN elem.attrib /\ elem.attrib.type = SLEEP_ANALYSIS
    /\ PositiveDuration(elem)
    /\ "value" \in DOMAIN elem.attrib /\ StageFields(elem.attrib.value) # {}

(***************************************************************************)
(* C15.  For a well-formed, non-empty export holding at least one          *)
(* sleep-analysis record of positive duration with a recognized stage, and *)
(* days >= 1, get_sleep_data returns a non-empty list, whatever the number *)
(* of text lines of the file (fewer than five included).                   *)
(***************************************************************************)
C15_LinesDoNotMatter ==
    ( /\ call = "sleep" /\ pc = "done"
      /\ file = "present" /\ ~malformed
      /\ days >= 1
      /\ \E i \in 1..Len(export) : CountedSleep(export[i]) )
        => result # <<>>

============================================================================
